---- MODULE Spec2Model ----
(***************************************************************************)
(* Booking and slot lifecycle of the Mintoctopus bot (src/working_bot.py): *)
(* the shared JSON document kept by safe_data_manager, the callback and    *)
(* message handlers that read and write it, the APScheduler job store used *)
(* for reminders, and the unused DataManager of services/data_manager.py.  *)
(*                                                                         *)
(* Time is counted in minutes.  A slot's "date" is a day number and its    *)
(* "start_time" a minute of the day ("14:00" is 14*60), so that            *)
(* datetime.strptime(f"{date} {start_time}") is date*MinutesPerDay+start.  *)
(* created_at (datetime.now().isoformat(), microsecond resolution) is a    *)
(* strictly increasing serial number; uuid4()[:8] ids are modelled as      *)
(* unique values derived from it.                                          *)
(***************************************************************************)
EXTENDS Integers, Sequences, FiniteSets, TLC

VARIABLES
    now,             \* datetime.now()
    time_slots,      \* data["masters"][m]["time_slots"]
    bookings,        \* data["masters"][m]["bookings"]
    top_bookings,    \* data["bookings"]
    device_slots,    \* data["devices"][d]["time_slots"]
    device_bookings, \* data["device_bookings"]
    user_states,     \* user_states[user_id]["awaiting"]
    jobs,            \* the scheduler's job store
    sent,            \* reminders delivered by send_reminder
    serial,          \* number of bookings created so far
    buttons,         \* confirm/decline button indices sent to each master
    disarmed,        \* bookings cancelled while confirmed, before any reminder
    tasks,           \* concurrent handler tasks (webhook mode)
    dm_bookings,     \* DataManager.data["bookings"]
    disk,            \* the document as last written to the data file
    outbox,          \* messages sent to the other party of a booking
    answer,          \* what the acting user was told last
    last_save,       \* what the last handler's save_data returned
    inflight,        \* a handler suspended between its awaits
    vibro_cancel,    \* user_states[user_id]["cancel_booking_id"]
    is_active,       \* data["masters"][m]["is_active"], "missing" if absent
    profile,         \* data["masters"][m]: whether the record exists, and
                     \* where its description and services come from
    awaiting,        \* user_states[user_id]["awaiting"] of the text flows
    gpt_status,      \* how the last call of the text interpreter ended
    max_requests,    \* RateLimiter.max_requests
    window_seconds,  \* RateLimiter.window_seconds
    requests,        \* RateLimiter.requests
    rl_time,         \* time.time()
    rl_result,       \* the is_allowed call made last and what it returned
    granted,         \* the times of all calls that returned True, per user
    ds_masters,      \* "masters" of the file DataService reads and writes
    ds_result,       \* what the last DataService.add_master call returned
    slot_buttons,    \* delete_slot_{i} / cancel_booking_{i} buttons sent to
                     \* each master, with the slot each one was shown for
    pressed,         \* the slot button pressed last
    sent_for,        \* confirm_booking_{i} / decline_booking_{i} buttons sent
                     \* to each master, with the booking each was sent for
    answered         \* the confirm and the decline button pressed last

\* the file and the messages, followed only where a handler's writes and
\* notifications are looked at
io == <<disk, outbox, answer, last_save, inflight>>

\* registration and slot entry through the text interpreter
onboard == <<profile, awaiting, gpt_status>>

\* the rate limiter of bot_middleware.py
limiter == <<max_requests, window_seconds, requests, rl_time, rl_result, granted>>

\* the DataService of bot/services/data_service.py
dataservice == <<ds_masters, ds_result>>

\* the slot management view and its buttons
manage == <<slot_buttons, pressed>>

\* the confirm/decline buttons with the booking each was sent for, and the
\* buttons the master pressed last
answers == <<sent_for, answered>>

vars == <<now, time_slots, bookings, top_bookings, device_slots,
          device_bookings, user_states, jobs, sent, serial, buttons,
          disarmed, tasks, dm_bookings, io, vibro_cancel, is_active, onboard, limiter, dataservice, manage, answers>>

store == <<time_slots, bookings, top_bookings, device_slots, device_bookings>>

----------------------------------------------------------------------------
(* Bounds and universe                                                     *)

MaxBookings == 2

MaxDMBookings == 2

\* bookings created in a run that follows the file and the messages
MaxIOBookings == 1

\* the largest max_requests and window_seconds a RateLimiter is built with,
\* the last second of the limiter's clock, and the number of requests let
\* through in a run
MaxRequests == 2
WindowSeconds == 2
MaxTime == 3
MaxGrants == 4

\* records DataService.add_master may append in a run
MaxMasters == 3

MIN_TELEGRAM_ID_LENGTH == 8

Clients == {"c1", "c2"}
RaceClients == {"c1", "c2", "c3"}
Masters == {"m1"}
\* entries of data["masters"] with is_equipment set
Equipment == {"chair"}
Entities == Masters \cup Equipment
\* the user whose handle is "@fshubin"
DeviceOwner == "fshubin"
Users == Masters \cup Clients \cup {DeviceOwner}
Devices == {"vibro_chair", "device_2"}
Reasons == {"busy"}

MinutesPerDay == 24 * 60

HHMM(h, m) == h * 60 + m

\* timedelta(hours=1), timedelta(minutes=15)
REMINDER_1_HOUR == 60
REMINDER_15_MIN == 15
MAX_BOOKINGS_PER_MASTER == 2

SlotA == [date |-> 1, start_time |-> HHMM(14, 0), end_time |-> HHMM(15, 0)]
EqSlot == [date |-> 1, start_time |-> HHMM(14, 0), end_time |-> HHMM(14, 30)]
DevSlot == [date |-> 1, start_time |-> HHMM(14, 0), end_time |-> HHMM(14, 30),
            is_booked |-> FALSE]

NowInit == 1 * MinutesPerDay + HHMM(12, 0)

NoId == 0
NoReason == ""
NoAwait == -1
NoOp == [op |-> "none"]
NoCall == [user |-> "none", allowed |-> FALSE]
NoAdd == [telegram_id |-> <<>>, returned |-> FALSE]

\* field values of a slot that are no day number and no minute of the day:
\* the key is missing, its value is null or empty, strptime rejects it
Absent == -1
Empty == -3
Unparsable == -2

\* no confirm/decline button pressed yet
NoSent == [index |-> -1, booking |-> 0]
NoAnswer == [confirm |-> NoSent, decline |-> NoSent]

NoButton == [kind |-> "none", index |-> -1, date |-> Absent, start_time |-> Absent]

\* a record of data["masters"] written before the run, and no record
Registered == [registered |-> TRUE, description |-> "gpt", services |-> "gpt"]
NoProfile == [registered |-> FALSE, description |-> "none", services |-> "none"]

----------------------------------------------------------------------------
(* Pure helpers                                                            *)

\* datetime.strptime(f"{slot_date} {slot_start_time}", "%Y-%m-%d %H:%M")
SlotDatetime(date, start_time) == date * MinutesPerDay + start_time

Active(b) == b.status \in {"pending", "confirmed"}

\* truth value of slot.get(key)
Present(v) == v # Absent /\ v # Empty

\* datetime.strptime(f"{date} {start_time}", "%Y-%m-%d %H:%M") returns
Parsable(date, start_time) == date >= 0 /\ start_time >= 0

Range(s) == {s[i] : i \in 1..Len(s)}

\* [b for b in bookings if b != slot_booking]
RECURSIVE Without(_, _)
Without(s, x) ==
    IF s = <<>> THEN <<>>
    ELSE IF Head(s) = x THEN Without(Tail(s), x)
         ELSE <<Head(s)>> \o Without(Tail(s), x)

\* list.pop(i), 0-based
Pop(s, i) == [k \in 1..(Len(s) - 1) |-> IF k <= i THEN s[k] ELSE s[k + 1]]

\* first index (1-based) of s whose element satisfies P, 0 if none
FirstIndex(s, P(_)) ==
    IF \E k \in 1..Len(s) : P(s[k])
    THEN CHOOSE k \in 1..Len(s) : P(s[k]) /\ \A j \in 1..(k - 1) : ~P(s[j])
    ELSE 0

----------------------------------------------------------------------------
(* Views (read-only handlers), as the set of buttons each one offers       *)

\* is_booked of count_available_slots / show_master_details: only the
\* master's own "bookings" list is consulted
IsBookedInMaster(m, slot) ==
    \E b \in Range(bookings[m]) :
        /\ b.slot_date = slot.date
        /\ b.slot_start_time = slot.start_time
        /\ Active(b)

\* is_booked of show_slots_by_date / process_time_booking_request: only the
\* top-level "bookings" list is consulted
IsBookedInTop(m, date, start_time) ==
    \E b \in Range(top_bookings) :
        /\ b.slot_date = date
        /\ b.slot_start_time = start_time
        /\ b.master_id = m
        /\ Active(b)

\* is_booked_in_bookings of the device views / process_device_booking
IsBookedInDevice(d, date, start_time) ==
    \E b \in Range(device_bookings) :
        /\ b.device_id = d
        /\ b.slot_date = date
        /\ b.slot_start_time = start_time
        /\ Active(b)

\* the 0-based slot indices for which show_master_details sends a
\* book_slot_{master_id}_{i} button at time t
show_master_details(m, t) ==
    {i \in 0..(Len(time_slots[m]) - 1) :
        LET slot == time_slots[m][i + 1] IN
        /\ Present(slot.date) /\ Present(slot.start_time)
        /\ Parsable(slot.date, slot.start_time)
        /\ SlotDatetime(slot.date, slot.start_time) > t
        /\ ~IsBookedInMaster(m, slot)}

\* count_available_slots with only confirmed bookings holding a slot
count_available_slots_confirmed_only(m, t) ==
    Cardinality({i \in 1..Len(time_slots[m]) :
        LET slot == time_slots[m][i] IN
        /\ Present(slot.date) /\ Present(slot.start_time)
        /\ Parsable(slot.date, slot.start_time)
        /\ SlotDatetime(slot.date, slot.start_time) > t
        /\ ~\E b \in Range(bookings[m]) :
               /\ b.slot_date = slot.date
               /\ b.slot_start_time = slot.start_time
               /\ b.status = "confirmed"})

count_available_slots(m, t) ==
    Cardinality({i \in 1..Len(time_slots[m]) :
        LET slot == time_slots[m][i] IN
        /\ Present(slot.date) /\ Present(slot.start_time)
        /\ Parsable(slot.date, slot.start_time)
        /\ SlotDatetime(slot.date, slot.start_time) > t
        /\ ~IsBookedInMaster(m, slot)})

\* master.get("is_active", True)
IsActive(m) == is_active[m] # "false"

\* the <<master, start_time>> pairs for which show_slots_by_date sends a
\* book_time_{master}_{start_time}_{selected_date} button at time t
show_slots_by_date(selected_date, t) ==
    UNION {
        {<<m, time_slots[m][i].start_time>> : i \in
            {k \in 1..Len(time_slots[m]) :
                LET slot == time_slots[m][k] IN
                /\ IsActive(m)
                /\ slot.date = selected_date
                \* the clock is consulted only "if slot_start_time:"
                /\ Present(slot.start_time) =>
                       /\ Parsable(selected_date, slot.start_time)
                       /\ SlotDatetime(selected_date, slot.start_time) > t
                /\ ~IsBookedInTop(m, slot.date, slot.start_time)}}
        : m \in Entities}

\* the start times for which show_device_day_slots sends a
\* confirm_device_booking_{device}_{date}_{start_time} button; the handler
\* never reads the clock
show_device_day_slots(d, date_str) ==
    {device_slots[d][i].start_time : i \in
        {k \in 1..Len(device_slots[d]) :
            LET slot == device_slots[d][k] IN
            /\ slot.date = date_str
            /\ ~slot.is_booked
            /\ ~IsBookedInDevice(d, date_str, slot.start_time)}}

\* the dates for which show_device_booking_slots sends a
\* device_slots_{device}_{date} button at time t: today and the next two days
show_device_booking_slots(d, t) ==
    LET today == t \div MinutesPerDay IN
    {date \in today..(today + 2) : show_device_day_slots(d, date) # {}}

\* show_slots_with_management: the future slots of the master, in list
\* order, each with the kind of button it carries (index = position here)
RECURSIVE FutureSlots(_, _)
FutureSlots(s, t) ==
    IF s = <<>> THEN <<>>
    ELSE IF /\ Present(Head(s).date) /\ Present(Head(s).start_time)
            /\ Parsable(Head(s).date, Head(s).start_time)
            /\ SlotDatetime(Head(s).date, Head(s).start_time) > t
         THEN <<Head(s)>> \o FutureSlots(Tail(s), t)
         ELSE FutureSlots(Tail(s), t)

ConfirmedFor(m, slot) ==
    FirstIndex(bookings[m],
               LAMBDA b : /\ b.slot_date = slot.date
                          /\ b.slot_start_time = slot.start_time
                          /\ b.status = "confirmed")

show_slots_with_management(m, t) ==
    LET fs == FutureSlots(time_slots[m], t) IN
    [i \in 1..Len(fs) |->
        [slot |-> fs[i],
         button |-> IF ConfirmedFor(m, fs[i]) # 0 THEN "cancel_booking"
                    ELSE "delete_slot"]]

\* the entries for which show_masters_list sends a select_master_{id} button
show_masters_list(t) == {m \in Entities : count_available_slots(m, t) > 0}

\* show_client_bookings: the bookings listed under "my bookings", read from
\* the "bookings" list of every master of the document
show_client_bookings(c) ==
    UNION {{b \in Range(bookings[m]) : b.client_id = c} : m \in Entities}

\* bot/services/data_service.py, DataService.get_all_masters
get_all_masters == {m \in Entities : is_active[m] # "false"}

----------------------------------------------------------------------------
(* Reminder scheduler (APScheduler job store)                              *)

\* master.get("is_equipment")
IsEquipment(m) == m \in Equipment

Job(id, run_date, to, b, offset) ==
    [id |-> id, run_date |-> run_date, to |-> to, booking |-> b.created_at,
     offset |-> offset]

\* scheduler.add_job(..., id=id) raises ConflictingIdError when the store
\* already holds a job with that id (replace_existing defaults to False)
Conflicts(J, id) == \E k \in J : k.id = id

\* booking_data.get('id', 'unknown')
IdString(b) == IF b.id = NoId THEN "unknown" ELSE ToString(b.id)

\* the job store after schedule_single_reminder; every exception (a missing
\* 'master_name' key, a conflicting job id) is caught and logged
schedule_single_reminder(J, b, reminder_time, reminder_type, is_equipment) ==
    LET cid == "reminder_client_" \o IdString(b) \o "_" \o reminder_type
        mid == "reminder_master_" \o IdString(b) \o "_" \o reminder_type
    IN  IF "master_name" \notin DOMAIN b THEN J
        ELSE IF is_equipment
        THEN IF Conflicts(J, cid) THEN J
             ELSE J \cup {Job(cid, reminder_time, b.client_id, b, reminder_type)}
        ELSE IF Conflicts(J, mid) THEN J
             ELSE LET J1 == J \cup {Job(mid, reminder_time, b.master_id, b, reminder_type)}
                  IN  IF Conflicts(J1, cid) THEN J1
                      ELSE J1 \cup {Job(cid, reminder_time, b.client_id, b, reminder_type)}

schedule_reminder(J, b, is_equipment, t) ==
    LET slot_datetime == SlotDatetime(b.slot_date, b.slot_start_time)
        reminder_1hour == slot_datetime - REMINDER_1_HOUR
        reminder_15min == slot_datetime - REMINDER_15_MIN
        J1 == IF reminder_1hour > t
              THEN schedule_single_reminder(J, b, reminder_1hour, "1_hour", is_equipment)
              ELSE J
    IN  IF reminder_15min > t
        THEN schedule_single_reminder(J1, b, reminder_15min, "15_min", is_equipment)
        ELSE J1

\* the two add_job calls of handle_booking_response, inside its try block
ConfirmJobs(J, m, booking_index, b, t) ==
    LET reminder_time == SlotDatetime(b.slot_date, b.slot_start_time) - REMINDER_15_MIN
        cid == "reminder_client_" \o b.client_id \o "_" \o ToString(booking_index)
        mid == "reminder_master_" \o m \o "_" \o ToString(booking_index)
    IN  IF ~(reminder_time > t) THEN J
        ELSE IF Conflicts(J, cid) THEN J
        ELSE LET J1 == J \cup {Job(cid, reminder_time, b.client_id, b, "15_min")}
             IN  IF Conflicts(J1, mid) THEN J1
                 ELSE J1 \cup {Job(mid, reminder_time, m, b, "15_min")}

\* the moments at which something can happen: the start of each slot and
\* the two reminder offsets before it
SlotStarts ==
    {SlotDatetime(s.date, s.start_time) : s \in {SlotA, DevSlot}}

TimePoints ==
    SlotStarts \cup {p - REMINDER_1_HOUR : p \in SlotStarts}
               \cup {p - REMINDER_15_MIN : p \in SlotStarts}

\* the clock moves to the next time point; the scheduler runs every job
\* whose run_date has come (send_reminder) and drops it from the store
Advance ==
    /\ \E p \in TimePoints : p > now
    /\ now' = CHOOSE p \in TimePoints : p > now /\ \A q \in TimePoints : q > now => p <= q
    /\ LET due == {j \in jobs : j.run_date <= now'} IN
        /\ jobs' = jobs \ due
        /\ sent' = sent \cup {[to |-> j.to, booking |-> j.booking, offset |-> j.offset] : j \in due}
    /\ UNCHANGED <<store, user_states, serial, buttons, disarmed, tasks, dm_bookings, io, vibro_cancel, is_active, onboard, limiter, dataservice, manage, answers>>

----------------------------------------------------------------------------
(* Booking requests.  Each operator is the synchronous part of its handler *)
(* (from load_data() to save_data(), with no await in between) and says    *)
(* nothing about now, sent, tasks and dm_bookings.  The actions that use   *)
(* them bound the number of bookings created in a run.                     *)

\* client_bookings_count of process_booking_request: confirmed bookings only
client_bookings_count(c, m) ==
    Cardinality({k \in 1..Len(bookings[m]) :
        /\ bookings[m][k].client_id = c
        /\ bookings[m][k].status = "confirmed"})

\* what process_booking_request answers to book_slot_{m}_{slot_index}
BookingRequestOutcome(c, m, slot_index) ==
    IF slot_index >= Len(time_slots[m]) THEN "slot_not_found"
    ELSE IF client_bookings_count(c, m) >= MAX_BOOKINGS_PER_MASTER THEN "limit"
    ELSE "created"

process_booking_request(c, m, slot_index) ==
    LET out == BookingRequestOutcome(c, m, slot_index) IN
    /\ IF out = "created"
       THEN LET slot == time_slots[m][slot_index + 1]
                booking == [id |-> NoId, client_id |-> c, master_id |-> m,
                            master_name |-> m,
                            slot_date |-> slot.date,
                            slot_start_time |-> slot.start_time,
                            status |-> "pending",
                            created_at |-> serial + 1,
                            decline_reason |-> NoReason]
            IN  /\ bookings' = [bookings EXCEPT ![m] = Append(@, booking)]
                /\ serial' = serial + 1
                \* confirm_booking_{len-1} / decline_booking_{len-1}
                /\ buttons' = [buttons EXCEPT ![m] = @ \cup {Len(bookings[m])}]
       ELSE UNCHANGED <<bookings, serial, buttons>>
    /\ UNCHANGED <<time_slots, top_bookings, device_slots, device_bookings,
                   user_states, jobs, disarmed>>

\* what process_time_booking_request answers to book_time_{m}_{time}_{date}
TimeBookingOutcome(c, m, slot_time, slot_date) ==
    IF ~\E k \in 1..Len(time_slots[m]) :
            /\ time_slots[m][k].date = slot_date
            /\ time_slots[m][k].start_time = slot_time
    THEN "slot_not_found"
    ELSE IF IsBookedInTop(m, slot_date, slot_time) THEN "slot_unavailable"
    ELSE "created"

\* the confirm_booking_{booking_id} / decline_booking_{booking_id} buttons
\* sent to the master here carry a uuid prefix, which handle_booking_response
\* cannot turn into a list index: pressing them changes nothing
process_time_booking_request(c, m, slot_time, slot_date) ==
    LET out == TimeBookingOutcome(c, m, slot_time, slot_date) IN
    /\ IF out = "created"
       THEN LET booking == [id |-> serial + 1, client_id |-> c, master_id |-> m,
                            master_name |-> m,
                            slot_date |-> slot_date,
                            slot_start_time |-> slot_time,
                            status |-> IF IsEquipment(m) THEN "confirmed"
                                       ELSE "pending",
                            created_at |-> serial + 1,
                            decline_reason |-> NoReason]
            IN  /\ top_bookings' = Append(top_bookings, booking)
                /\ serial' = serial + 1
                /\ jobs' = IF IsEquipment(m)
                           THEN schedule_reminder(jobs, booking, TRUE, now)
                           ELSE jobs
       ELSE UNCHANGED <<top_bookings, serial, jobs>>
    /\ UNCHANGED <<time_slots, bookings, device_slots, device_bookings,
                   user_states, buttons, disarmed>>

\* what process_device_booking answers to
\* confirm_device_booking_{d}_{date_str}_{start_time}
DeviceBookingOutcome(c, d, date_str, start_time) ==
    IF ~\E k \in 1..Len(device_slots[d]) :
            /\ device_slots[d][k].date = date_str
            /\ device_slots[d][k].start_time = start_time
    THEN "slot_not_found"
    ELSE IF IsBookedInDevice(d, date_str, start_time) THEN "slot_unavailable"
    ELSE "created"

process_device_booking(c, d, date_str, start_time) ==
    LET out == DeviceBookingOutcome(c, d, date_str, start_time) IN
    /\ IF out = "created"
       THEN LET device_booking == [id |-> serial + 1, client_id |-> c,
                                   device_id |-> d,
                                   slot_date |-> date_str,
                                   slot_start_time |-> start_time,
                                   status |-> "confirmed",
                                   created_at |-> serial + 1]
                k == FirstIndex(device_slots[d],
                                LAMBDA s : s.date = date_str /\ s.start_time = start_time)
            IN  /\ device_bookings' = Append(device_bookings, device_booking)
                /\ device_slots' = [device_slots EXCEPT ![d][k].is_booked = TRUE]
                /\ serial' = serial + 1
                /\ jobs' = schedule_reminder(jobs, device_booking, TRUE, now)
       ELSE UNCHANGED <<device_bookings, device_slots, serial, jobs>>
    /\ UNCHANGED <<time_slots, bookings, top_bookings, user_states, buttons,
                   disarmed>>

----------------------------------------------------------------------------
(* The master's answers and slot management                                *)

\* handle_booking_response, action == "confirm"; delivered says whether
\* sending the confirmation to the client succeeded (the reminder is armed
\* in the same try block, after the send)
handle_booking_response_confirm(m, booking_index, delivered) ==
    /\ IF booking_index >= Len(bookings[m])
       THEN UNCHANGED <<bookings, jobs>>
       ELSE LET booking == bookings[m][booking_index + 1] IN
            /\ bookings' = [bookings EXCEPT ![m][booking_index + 1].status = "confirmed"]
            /\ jobs' = IF delivered
                       THEN ConfirmJobs(jobs, m, booking_index, booking, now)
                       ELSE jobs
    /\ UNCHANGED <<time_slots, top_bookings, device_slots, device_bookings,
                   user_states, serial, buttons, disarmed>>

\* handle_booking_response, action == "decline": only asks for the reason
handle_booking_response_decline(m, booking_index) ==
    /\ IF booking_index >= Len(bookings[m])
       THEN UNCHANGED user_states
       ELSE user_states' = [user_states EXCEPT ![m] = booking_index]
    /\ UNCHANGED <<store, jobs, serial, buttons, disarmed>>

\* the text message that follows, while awaiting decline_reason_{index}
process_decline_reason(m, reason) ==
    LET booking_index == user_states[m] IN
    /\ booking_index # NoAwait
    /\ IF booking_index >= Len(bookings[m])
       THEN UNCHANGED bookings
       ELSE bookings' = [bookings EXCEPT
                ![m][booking_index + 1].status = "declined",
                ![m][booking_index + 1].decline_reason = reason]
    /\ user_states' = [user_states EXCEPT ![m] = NoAwait]
    /\ UNCHANGED <<time_slots, top_bookings, device_slots, device_bookings,
                   jobs, serial, buttons, disarmed>>

\* bookings whose reminders must not be sent any more: cancelled while
\* confirmed, before any of their reminders was delivered
Disarm(b) ==
    IF \E r \in sent : r.booking = b.created_at
    THEN disarmed
    ELSE disarmed \cup {b.created_at}

delete_slot(m, slot_index) ==
    /\ IF slot_index >= Len(time_slots[m])
       THEN UNCHANGED <<time_slots, bookings, disarmed>>
       ELSE LET slot == time_slots[m][slot_index + 1]
                k == ConfirmedFor(m, slot)
            IN  /\ IF k # 0
                   THEN /\ bookings' = [bookings EXCEPT ![m] = Without(@, bookings[m][k])]
                        /\ disarmed' = Disarm(bookings[m][k])
                   ELSE UNCHANGED <<bookings, disarmed>>
                /\ time_slots' = [time_slots EXCEPT ![m] = Pop(@, slot_index)]
    /\ UNCHANGED <<top_bookings, device_slots, device_bookings, user_states,
                   jobs, serial, buttons>>

cancel_booking(m, slot_index) ==
    /\ IF slot_index >= Len(time_slots[m])
       THEN UNCHANGED <<bookings, disarmed>>
       ELSE LET slot == time_slots[m][slot_index + 1]
                k == ConfirmedFor(m, slot)
            IN  IF k # 0
                THEN /\ bookings' = [bookings EXCEPT ![m] = Without(@, bookings[m][k])]
                     /\ disarmed' = Disarm(bookings[m][k])
                ELSE UNCHANGED <<bookings, disarmed>>
    /\ UNCHANGED <<time_slots, top_bookings, device_slots, device_bookings,
                   user_states, jobs, serial, buttons>>

----------------------------------------------------------------------------
(* The bot: every handler runs to completion before the next one starts    *)

\* RateLimiter() as constructed at import, before any request
LimiterIdle ==
    /\ max_requests = MaxRequests
    /\ window_seconds = WindowSeconds
    /\ requests = [u \in Users |-> <<>>]
    /\ rl_time = 0
    /\ rl_result = NoCall
    /\ granted = [u \in Users |-> <<>>]

Init ==
    /\ now = NowInit
    /\ time_slots = [m \in Entities |->
                        IF IsEquipment(m) THEN <<EqSlot>> ELSE <<SlotA>>]
    /\ bookings = [m \in Entities |-> <<>>]
    /\ top_bookings = <<>>
    /\ device_slots = [d \in Devices |-> <<DevSlot>>]
    /\ device_bookings = <<>>
    /\ user_states = [m \in Masters |-> NoAwait]
    /\ jobs = {}
    /\ sent = {}
    /\ serial = 0
    /\ buttons = [m \in Entities |-> {}]
    /\ disarmed = {}
    /\ tasks = [c \in RaceClients |-> [pc |-> "idle", path |-> "none", outcome |-> "none"]]
    /\ dm_bookings = <<>>
    /\ disk = store
    /\ outbox = {}
    /\ answer = "none"
    /\ last_save = "none"
    /\ inflight = NoOp
    /\ vibro_cancel = [u \in Users |-> NoId]
    /\ is_active = [m \in Entities |-> "true"]
    /\ profile = [m \in Masters |-> Registered]
    /\ awaiting = [m \in Masters |-> "none"]
    /\ gpt_status = "none"
    /\ LimiterIdle
    /\ ds_masters = <<>>
    /\ ds_result = NoAdd
    /\ slot_buttons = [m \in Masters |-> {}]
    /\ pressed = NoButton
    /\ sent_for = [m \in Masters |-> {}]
    /\ answered = NoAnswer

rest_managed == <<now, sent, tasks, dm_bookings, io, vibro_cancel, is_active,
                  onboard, limiter, dataservice, answers>>

rest == <<now, sent, tasks, dm_bookings, io, vibro_cancel, is_active, onboard, limiter, dataservice, manage, answers>>

clock == <<now, sent, tasks, dm_bookings, vibro_cancel, is_active, onboard, limiter, dataservice, manage, answers>>

\* the slots of the initial document: a booking button for any of them may
\* have been sent by a view before anything else happened, and stays
\* pressable afterwards
InitSlots == {SlotA}

BookSlot ==
    \E c \in Clients, m \in Masters, i \in 0..(Cardinality(InitSlots) - 1) :
        /\ BookingRequestOutcome(c, m, i) = "created" => serial < MaxBookings
        /\ process_booking_request(c, m, i)
        /\ UNCHANGED rest

BookTime ==
    \E c \in Clients, m \in Masters, s \in InitSlots :
        /\ TimeBookingOutcome(c, m, s.start_time, s.date) = "created"
                => serial < MaxBookings
        /\ process_time_booking_request(c, m, s.start_time, s.date)
        /\ UNCHANGED rest

BookDevice ==
    \E c \in Clients, d \in Devices :
        /\ DeviceBookingOutcome(c, d, DevSlot.date, DevSlot.start_time) = "created"
                => serial < MaxBookings
        /\ process_device_booking(c, d, DevSlot.date, DevSlot.start_time)
        /\ UNCHANGED rest

Confirm ==
    \E m \in Masters : \E i \in buttons[m], delivered \in BOOLEAN :
        handle_booking_response_confirm(m, i, delivered) /\ UNCHANGED rest

Decline ==
    \E m \in Masters : \E i \in buttons[m] :
        handle_booking_response_decline(m, i) /\ UNCHANGED rest

DeclineReason ==
    \E m \in Masters, reason \in Reasons :
        process_decline_reason(m, reason) /\ UNCHANGED rest

\* delete_slot_{i}: sent by show_slots_with_management for a slot without a
\* confirmed booking
DeleteSlot ==
    \E m \in Masters, i \in 0..(Cardinality(InitSlots) - 1) :
        delete_slot(m, i) /\ UNCHANGED rest

\* cancel_booking_{i}: pressed on the view the master has just been sent
CancelBooking ==
    \E m \in Masters :
        LET view == show_slots_with_management(m, now) IN
        \E i \in 0..(Len(view) - 1) :
            /\ view[i + 1].button = "cancel_booking"
            /\ cancel_booking(m, i)
            /\ UNCHANGED rest

Next ==
    \/ Advance
    \/ BookSlot
    \/ BookTime
    \/ BookDevice
    \/ Confirm
    \/ Decline
    \/ DeclineReason
    \/ DeleteSlot
    \/ CancelBooking

Spec == Init /\ [][Next]_vars

----------------------------------------------------------------------------
(* The cap of process_booking_request needs MAX_BOOKINGS_PER_MASTER + 1    *)
(* requests of one client: the same handlers, up to that many bookings.    *)

BookSlotCap ==
    \E c \in Clients, m \in Masters, i \in 0..(Cardinality(InitSlots) - 1) :
        /\ BookingRequestOutcome(c, m, i) = "created"
                => serial < MAX_BOOKINGS_PER_MASTER + 1
        /\ process_booking_request(c, m, i)
        /\ UNCHANGED rest

NextCap ==
    \/ BookSlotCap
    \/ Confirm
    \/ Advance

SpecCap == Init /\ [][NextCap]_vars

----------------------------------------------------------------------------
(* Webhook mode: WebhookHandler.do_POST hands every update to the event    *)
(* loop with run_coroutine_threadsafe and does not wait for it, so the     *)
(* handlers of different clients are tasks that interleave at each await.  *)
(* pc names the await a task is suspended at.                              *)

Paths == {"book_slot", "book_time", "book_device"}

\* the update arrives: handle_callback_query runs up to `await query.answer()`
RacePress ==
    \E c \in RaceClients, path \in Paths :
        /\ tasks[c].pc = "idle"
        /\ tasks' = [tasks EXCEPT ![c] = [pc |-> "answer", path |-> path,
                                          outcome |-> "none"]]
        /\ UNCHANGED <<now, store, user_states, jobs, sent, serial, buttons,
                       disarmed, dm_bookings, io, vibro_cancel, is_active, onboard, limiter, dataservice, manage, answers>>

\* process_booking_request starts with a second `await query.answer()`
RaceAnswer ==
    \E c \in RaceClients :
        /\ tasks[c].pc = "answer"
        /\ tasks[c].path = "book_slot"
        /\ tasks' = [tasks EXCEPT ![c].pc = "answer2"]
        /\ UNCHANGED <<now, store, user_states, jobs, sent, serial, buttons,
                       disarmed, dm_bookings, io, vibro_cancel, is_active, onboard, limiter, dataservice, manage, answers>>

\* the task resumes and runs its handler from load_data() to the first
\* await after save_data()
RaceBody ==
    \E c \in RaceClients, m \in Masters, d \in Devices :
        /\ \/ /\ tasks[c].pc = "answer2"
              /\ tasks[c].path = "book_slot"
              /\ process_booking_request(c, m, 0)
              /\ tasks' = [tasks EXCEPT ![c].pc = "reply",
                               ![c].outcome = BookingRequestOutcome(c, m, 0)]
           \/ /\ tasks[c].pc = "answer"
              /\ tasks[c].path = "book_time"
              /\ process_time_booking_request(c, m, SlotA.start_time, SlotA.date)
              /\ tasks' = [tasks EXCEPT ![c].pc = "reply",
                               ![c].outcome = TimeBookingOutcome(c, m,
                                                  SlotA.start_time, SlotA.date)]
           \/ /\ tasks[c].pc = "answer"
              /\ tasks[c].path = "book_device"
              /\ process_device_booking(c, d, DevSlot.date, DevSlot.start_time)
              /\ tasks' = [tasks EXCEPT ![c].pc = "reply",
                               ![c].outcome = DeviceBookingOutcome(c, d,
                                                  DevSlot.date, DevSlot.start_time)]
        /\ UNCHANGED <<now, sent, dm_bookings, io, vibro_cancel, is_active, onboard, limiter, dataservice, manage, answers>>

\* the remaining awaits only send messages
RaceFinish ==
    \E c \in RaceClients :
        /\ tasks[c].pc = "reply"
        /\ tasks' = [tasks EXCEPT ![c].pc = "done"]
        /\ UNCHANGED <<now, store, user_states, jobs, sent, serial, buttons,
                       disarmed, dm_bookings, io, vibro_cancel, is_active, onboard, limiter, dataservice, manage, answers>>

NextRace ==
    \/ RacePress
    \/ RaceAnswer
    \/ RaceBody
    \/ RaceFinish

SpecRace == Init /\ [][NextRace]_vars

----------------------------------------------------------------------------
(* services/data_manager.py: DataManager, a store of its own                *)

Statuses == {"pending", "confirmed", "declined", "cancelled"}

\* DataManager.create_booking; booking_id ends with the creation timestamp
create_booking(guest_telegram_id, master_telegram_id, slot_id) ==
    dm_bookings' = Append(dm_bookings,
        [booking_id |-> Len(dm_bookings) + 1,
         guest_telegram_id |-> guest_telegram_id,
         master_telegram_id |-> master_telegram_id,
         slot_id |-> slot_id,
         status |-> "pending",
         decline_reason |-> NoReason])

\* DataManager.update_booking_status; decline_reason defaults to None and
\* is stored only when it is truthy
update_booking_status(booking_id, status, decline_reason) ==
    dm_bookings' = [k \in 1..Len(dm_bookings) |->
        IF k = FirstIndex(dm_bookings, LAMBDA b : b.booking_id = booking_id)
        THEN [dm_bookings[k] EXCEPT
                 !.status = status,
                 !.decline_reason = IF decline_reason # NoReason
                                    THEN decline_reason ELSE @]
        ELSE dm_bookings[k]]

DMCreate ==
    \E g \in Clients, m \in Masters :
        /\ Len(dm_bookings) < MaxDMBookings
        /\ create_booking(g, m, m \o "_0")
        /\ UNCHANGED <<now, store, user_states, jobs, sent, serial, buttons,
                       disarmed, tasks, io, vibro_cancel, is_active, onboard, limiter, dataservice, manage, answers>>

DMUpdate ==
    \E id \in 1..MaxDMBookings, st \in Statuses, r \in Reasons \cup {NoReason} :
        /\ update_booking_status(id, st, r)
        /\ UNCHANGED <<now, store, user_states, jobs, sent, serial, buttons,
                       disarmed, tasks, io, vibro_cancel, is_active, onboard, limiter, dataservice, manage, answers>>

NextDM ==
    \/ DMCreate
    \/ DMUpdate

SpecDM == Init /\ [][NextDM]_vars

----------------------------------------------------------------------------
(* Equipment and devices: bookings that need no approval                   *)

\* book_time_{e}_{start_time}_{date} pressed for an equipment entry
BookEquipment ==
    \E c \in Clients, e \in Equipment :
        /\ TimeBookingOutcome(c, e, EqSlot.start_time, EqSlot.date) = "created"
                => serial < MaxBookings
        /\ process_time_booking_request(c, e, EqSlot.start_time, EqSlot.date)
        /\ UNCHANGED rest

\* book_slot_{e}_{i}: show_masters_list and show_master_details offer the
\* entries with is_equipment like every other entry of data["masters"]
BookEquipmentSlot ==
    \E c \in Clients, e \in Equipment :
        /\ BookingRequestOutcome(c, e, 0) = "created" => serial < MaxBookings
        /\ process_booking_request(c, e, 0)
        /\ UNCHANGED rest

\* handle_callback_query, cancel_vibro_{booking_id}: the branch comes after
\* the lookup of the pressing user among data["masters"], then
\* handle_vibro_booking_cancel.  defined is whether the functions below the
\* `if __name__ == "__main__": main()` line exist (the module was imported)
\* or the call raises NameError (the file was run as a script)
handle_vibro_booking_cancel(u, booking_id, defined) ==
    /\ IF /\ defined
          /\ u \in Entities
          /\ \E b \in Range(device_bookings) : b.id = booking_id
       THEN /\ vibro_cancel' = [vibro_cancel EXCEPT ![u] = booking_id]
            /\ user_states' = [user_states EXCEPT ![u] = NoAwait]
       ELSE UNCHANGED <<vibro_cancel, user_states>>
    /\ UNCHANGED <<store, jobs, serial, buttons, disarmed>>

\* process_vibro_cancel_reason without the loop that frees the slot
process_vibro_cancel_reason_slot_kept(u, cancel_reason) ==
    LET booking_id == vibro_cancel[u]
        booking_index == FirstIndex(device_bookings, LAMBDA b : b.id = booking_id)
    IN
    /\ booking_id # NoId
    /\ IF booking_index = 0
       THEN UNCHANGED <<device_bookings, device_slots, vibro_cancel>>
       ELSE LET booking == device_bookings[booking_index]
            IN  /\ device_bookings' = Pop(device_bookings, booking_index - 1)
                /\ device_slots' = device_slots
                /\ vibro_cancel' = [vibro_cancel EXCEPT ![u] = NoId]
    /\ UNCHANGED <<time_slots, bookings, top_bookings, user_states, jobs, serial,
                   buttons, disarmed>>

\* the text message that follows, while awaiting vibro_cancel_reason
process_vibro_cancel_reason(u, cancel_reason) ==
    LET booking_id == vibro_cancel[u]
        booking_index == FirstIndex(device_bookings, LAMBDA b : b.id = booking_id)
    IN
    /\ booking_id # NoId
    /\ IF booking_index = 0
       THEN UNCHANGED <<device_bookings, device_slots, vibro_cancel>>
       ELSE LET booking == device_bookings[booking_index]
                k == FirstIndex(device_slots["vibro_chair"],
                         LAMBDA s : /\ s.date = booking.slot_date
                                    /\ s.start_time = booking.slot_start_time)
            IN  /\ device_bookings' = Pop(device_bookings, booking_index - 1)
                /\ device_slots' =
                       IF k = 0 THEN device_slots
                       ELSE [device_slots EXCEPT !["vibro_chair"][k].is_booked = FALSE]
                /\ vibro_cancel' = [vibro_cancel EXCEPT ![u] = NoId]
    /\ UNCHANGED <<time_slots, bookings, top_bookings, user_states, jobs, serial,
                   buttons, disarmed>>

\* show_vibro_chair_bookings: the ids that ever get a cancel_vibro_{id}
\* button are those of bookings with device_id "vibro_chair"
show_vibro_chair_bookings(booking_id) ==
    \A b \in Range(device_bookings) :
        b.id = booking_id => b.device_id = "vibro_chair"

\* show_vibro_chair_bookings sends the cancel_vibro_{id} buttons to whoever
\* types the menu text
VibroCancel ==
    \E u \in Users, id \in 1..MaxBookings, defined \in BOOLEAN :
        /\ show_vibro_chair_bookings(id)
        /\ handle_vibro_booking_cancel(u, id, defined)
        /\ UNCHANGED <<now, sent, tasks, dm_bookings, io, is_active, onboard, limiter, dataservice, manage, answers>>

VibroCancelReason ==
    \E u \in Users, reason \in Reasons :
        /\ process_vibro_cancel_reason(u, reason)
        /\ UNCHANGED <<now, sent, tasks, dm_bookings, io, is_active, onboard, limiter, dataservice, manage, answers>>

NextEquip ==
    \/ BookEquipment
    \/ BookEquipmentSlot
    \/ VibroCancel
    \/ VibroCancelReason
    \/ BookDevice
    \/ Advance

SpecEquip == Init /\ [][NextEquip]_vars

----------------------------------------------------------------------------
(* The handlers of the masters' bookings with their file writes and their  *)
(* messages.  delete_slot and cancel_booking are suspended in              *)
(* `await bot.send_message(...)` before they change the document; the      *)
(* other handlers write first and send afterwards.  No other handler is    *)
(* interleaved with a suspended one here.                                  *)

\* the text generate_cancellation_message is given by cancel_booking and
\* delete_slot
CancelText == "master_cancelled"

Note(to, kind, created_at, reason) ==
    [to |-> to, kind |-> kind, booking |-> created_at, reason |-> reason]

\* save_data(data): safe_data_manager.save_data returns False when the write
\* fails, and no handler looks at the result
Saved(ok) ==
    /\ disk' = IF ok THEN store' ELSE disk
    /\ last_save' = IF ok THEN "ok" ELSE "failed"

NoSave == disk' = disk /\ last_save' = "none"

Busy == inflight.op # "none"

IOBookSlot ==
    \E c \in Clients, m \in Masters, ok \in BOOLEAN :
        LET out == BookingRequestOutcome(c, m, 0) IN
        /\ ~Busy
        /\ out = "created" => serial < MaxIOBookings
        /\ process_booking_request(c, m, 0)
        /\ IF out = "created"
           THEN /\ Saved(ok)
                /\ answer' = "done"
                /\ outbox' = outbox \cup {Note(m, "new_request", serial + 1, NoReason)}
           ELSE /\ NoSave
                /\ answer' = out
                /\ outbox' = outbox
        /\ UNCHANGED <<clock, inflight>>

IOConfirm ==
    \E m \in Masters : \E i \in buttons[m], delivered \in BOOLEAN, ok \in BOOLEAN :
        /\ ~Busy
        /\ handle_booking_response_confirm(m, i, delivered)
        /\ IF i < Len(bookings[m])
           THEN /\ Saved(ok)
                /\ answer' = "done"
                /\ outbox' = IF delivered
                             THEN outbox \cup {Note(bookings[m][i + 1].client_id,
                                     "confirmed", bookings[m][i + 1].created_at, NoReason)}
                             ELSE outbox
           ELSE /\ NoSave
                /\ answer' = "not_found"
                /\ outbox' = outbox
        /\ UNCHANGED <<clock, inflight>>

IODecline ==
    \E m \in Masters : \E i \in buttons[m] :
        /\ ~Busy
        /\ handle_booking_response_decline(m, i)
        /\ NoSave
        /\ answer' = IF i < Len(bookings[m]) THEN "ask_reason" ELSE "not_found"
        /\ UNCHANGED <<clock, outbox, inflight>>

IODeclineReason ==
    \E m \in Masters, reason \in Reasons, ok \in BOOLEAN :
        LET i == user_states[m] IN
        /\ ~Busy
        /\ process_decline_reason(m, reason)
        /\ IF i < Len(bookings[m])
           THEN /\ Saved(ok)
                /\ answer' = "done"
                /\ outbox' = outbox \cup {Note(bookings[m][i + 1].client_id,
                                "declined", bookings[m][i + 1].created_at, reason)}
           ELSE /\ NoSave
                /\ answer' = "not_found"
                /\ outbox' = outbox
        /\ UNCHANGED <<clock, inflight>>

\* cancel_booking up to `await ...send_message(chat_id=client_id, ...)`
IOCancelNotify ==
    \E m \in Masters :
        LET view == show_slots_with_management(m, now) IN
        \E i \in 0..(Len(view) - 1) :
            LET k == ConfirmedFor(m, time_slots[m][i + 1]) IN
            /\ ~Busy
            /\ view[i + 1].button = "cancel_booking"
            /\ IF k # 0
               THEN /\ outbox' = outbox \cup {Note(bookings[m][k].client_id,
                                    "cancelled", bookings[m][k].created_at, CancelText)}
                    /\ inflight' = [op |-> "cancel_booking", m |-> m, slot_index |-> i]
                    /\ answer' = answer
               ELSE /\ outbox' = outbox
                    /\ inflight' = inflight
                    /\ answer' = "not_found"
            /\ NoSave
            /\ UNCHANGED <<store, user_states, jobs, serial, buttons, disarmed, clock>>

\* ... and from there to the end
IOCancelWrite ==
    \E ok \in BOOLEAN :
        /\ inflight.op = "cancel_booking"
        /\ cancel_booking(inflight.m, inflight.slot_index)
        /\ Saved(ok)
        /\ answer' = "done"
        /\ inflight' = NoOp
        /\ UNCHANGED <<clock, outbox>>

\* delete_slot of a slot with a confirmed booking, up to the send_message
IODeleteNotify ==
    \E m \in Masters, i \in 0..(Cardinality(InitSlots) - 1) :
        /\ ~Busy
        /\ i < Len(time_slots[m])
        /\ ConfirmedFor(m, time_slots[m][i + 1]) # 0
        /\ LET b == bookings[m][ConfirmedFor(m, time_slots[m][i + 1])] IN
           outbox' = outbox \cup {Note(b.client_id, "cancelled", b.created_at, CancelText)}
        /\ inflight' = [op |-> "delete_slot", m |-> m, slot_index |-> i]
        /\ NoSave
        /\ UNCHANGED <<store, user_states, jobs, serial, buttons, disarmed, clock,
                       answer>>

IODeleteWrite ==
    \E ok \in BOOLEAN :
        /\ inflight.op = "delete_slot"
        /\ delete_slot(inflight.m, inflight.slot_index)
        /\ Saved(ok)
        /\ answer' = "done"
        /\ inflight' = NoOp
        /\ UNCHANGED <<clock, outbox>>

\* delete_slot of a slot without a confirmed booking: nothing is sent
IODeleteFree ==
    \E m \in Masters, i \in 0..(Cardinality(InitSlots) - 1), ok \in BOOLEAN :
        /\ ~Busy
        /\ i < Len(time_slots[m]) => ConfirmedFor(m, time_slots[m][i + 1]) = 0
        /\ delete_slot(m, i)
        /\ IF i < Len(time_slots[m])
           THEN Saved(ok) /\ answer' = "done"
           ELSE NoSave /\ answer' = "not_found"
        /\ UNCHANGED <<clock, outbox, inflight>>

NextIO ==
    \/ IOBookSlot
    \/ IOConfirm
    \/ IODecline
    \/ IODeclineReason
    \/ IOCancelNotify
    \/ IOCancelWrite
    \/ IODeleteNotify
    \/ IODeleteWrite
    \/ IODeleteFree

SpecIO == Init /\ [][NextIO]_vars

----------------------------------------------------------------------------
(* Registration, profile edits and slot entry through the text interpreter *)
(* (services/gpt_service.py).  What the interpreter answers is an input:   *)
(* the call fails, or it returns any list of slot objects.                 *)

\* slots a master's time_slots may hold in a run of the text flows
MaxSlots == 3

SlotB == [date |-> 1, start_time |-> HHMM(16, 0), end_time |-> HHMM(17, 0)]
SlotInverted == [date |-> 1, start_time |-> HHMM(18, 0), end_time |-> HHMM(17, 0)]
SlotNoDate == [date |-> Absent, start_time |-> HHMM(14, 0), end_time |-> HHMM(15, 0)]
SlotBadTime == [date |-> 1, start_time |-> Unparsable, end_time |-> HHMM(15, 0)]
SlotNoTime == [date |-> 1, start_time |-> Empty, end_time |-> HHMM(15, 0)]

GptSlots == {SlotA, SlotB, SlotInverted, SlotNoDate, SlotBadTime, SlotNoTime}

\* the lists the interpreter may return
GptSlotLists ==
    {<<>>} \cup {<<x>> : x \in GptSlots}
           \cup {<<x, y>> : x \in {SlotA, SlotB}, y \in GptSlots}

\* a reply of the interpreter: the call failed, or it returned a list
GptReplies == [ok : {FALSE}, slots : {<<>>}] \cup [ok : {TRUE}, slots : GptSlotLists]

\* all(key in slot for key in ["date", "start_time", "end_time", "location"])
HasAllKeys(slot) ==
    /\ slot.date # Absent
    /\ slot.start_time # Absent
    /\ slot.end_time # Absent

\* valid_slots of parse_time_slots
RECURSIVE ValidSlots(_)
ValidSlots(s) ==
    IF s = <<>> THEN <<>>
    ELSE IF HasAllKeys(Head(s)) THEN <<Head(s)>> \o ValidSlots(Tail(s))
         ELSE ValidSlots(Tail(s))

\* GPTService.parse_time_slots: [] on any exception
parse_time_slots(reply) ==
    IF ~reply.ok THEN <<>> ELSE ValidSlots(reply.slots)

\* GPTService.process_master_profile: analyze_master_profile and
\* create_fantasy_description each return a fixed value on any exception
gpt_process_master_profile(reply) ==
    IF reply.ok
    THEN [description |-> "gpt", services |-> "gpt", time_slots |-> reply.slots]
    ELSE [description |-> "fallback", services |-> "fallback", time_slots |-> <<>>]

GptStatus(reply) == IF reply.ok THEN "ok" ELSE "failed"

\* handle_message, MASTER_ROLE with no record found for the user
select_master_role(m) ==
    /\ ~profile[m].registered
    /\ awaiting' = [awaiting EXCEPT ![m] = "new_or_existing_master"]
    /\ gpt_status' = "none"
    /\ UNCHANGED <<profile, time_slots>>

\* the answer 'новый'
process_new_or_existing_master(m) ==
    /\ awaiting[m] = "new_or_existing_master"
    /\ awaiting' = [awaiting EXCEPT ![m] = "master_profile"]
    /\ gpt_status' = "none"
    /\ UNCHANGED <<profile, time_slots>>

\* a record appended behind an existing one of the same telegram_id is
\* never found by the handlers' lookups, which take the first match
process_master_profile(m, reply) ==
    /\ awaiting[m] = "master_profile"
    /\ LET extracted == gpt_process_master_profile(reply) IN
        IF profile[m].registered
        THEN UNCHANGED <<profile, time_slots>>
        ELSE /\ profile' = [profile EXCEPT ![m] =
                    [registered |-> TRUE,
                     description |-> extracted.description,
                     services |-> extracted.services]]
             /\ time_slots' = [time_slots EXCEPT ![m] = extracted.time_slots]
    /\ awaiting' = [awaiting EXCEPT ![m] = "none"]
    /\ gpt_status' = GptStatus(reply)

edit_profile_request(m) ==
    /\ awaiting' = [awaiting EXCEPT ![m] = "new_profile"]
    /\ gpt_status' = "none"
    /\ UNCHANGED <<profile, time_slots>>

\* existing_slots of process_new_profile after the loop over the new slots
RECURSIVE MergeSlots(_, _)
MergeSlots(existing, new) ==
    IF new = <<>> THEN existing
    ELSE LET n == Head(new) IN
         IF \E k \in 1..Len(existing) :
                existing[k].date = n.date /\ existing[k].start_time = n.start_time
         THEN MergeSlots(existing, Tail(new))
         ELSE MergeSlots(Append(existing, n), Tail(new))

process_new_profile(m, reply) ==
    /\ awaiting[m] = "new_profile"
    /\ LET extracted == gpt_process_master_profile(reply) IN
        IF profile[m].registered
        THEN /\ profile' = [profile EXCEPT ![m] =
                    [registered |-> TRUE,
                     description |-> extracted.description,
                     services |-> extracted.services]]
             /\ time_slots' = [time_slots EXCEPT ![m] =
                    MergeSlots(time_slots[m], extracted.time_slots)]
        ELSE UNCHANGED <<profile, time_slots>>
    /\ awaiting' = [awaiting EXCEPT ![m] = "none"]
    /\ gpt_status' = GptStatus(reply)

\* handle_master_text, ADD_SLOTS
add_slots_request(m) ==
    /\ awaiting' = [awaiting EXCEPT ![m] = "add_slots"]
    /\ gpt_status' = "none"
    /\ UNCHANGED <<profile, time_slots>>

process_add_slots(m, reply) ==
    /\ awaiting[m] = "add_slots"
    /\ LET new_slots == parse_time_slots(reply) IN
        IF new_slots = <<>> \/ ~profile[m].registered
        THEN UNCHANGED time_slots
        ELSE time_slots' = [time_slots EXCEPT ![m] = time_slots[m] \o new_slots]
    /\ awaiting' = [awaiting EXCEPT ![m] = "none"]
    /\ gpt_status' = GptStatus(reply)
    /\ UNCHANGED profile

texts == <<now, bookings, top_bookings, device_slots, device_bookings,
           user_states, jobs, sent, serial, buttons, disarmed, tasks,
           dm_bookings, io, vibro_cancel, is_active, limiter, dataservice, manage, answers>>

SelectMasterRole ==
    \E m \in Masters : select_master_role(m) /\ UNCHANGED texts

NewOrExistingMaster ==
    \E m \in Masters : process_new_or_existing_master(m) /\ UNCHANGED texts

MasterProfile ==
    \E m \in Masters, reply \in GptReplies :
        /\ Len(reply.slots) <= MaxSlots
        /\ process_master_profile(m, reply)
        /\ UNCHANGED texts

EditProfileRequest ==
    \E m \in Masters : edit_profile_request(m) /\ UNCHANGED texts

NewProfile ==
    \E m \in Masters, reply \in GptReplies :
        /\ Len(time_slots[m]) + Len(reply.slots) <= MaxSlots
        /\ process_new_profile(m, reply)
        /\ UNCHANGED texts

AddSlotsRequest ==
    \E m \in Masters : add_slots_request(m) /\ UNCHANGED texts

AddSlots ==
    \E m \in Masters, reply \in GptReplies :
        /\ Len(time_slots[m]) + Len(reply.slots) <= MaxSlots
        /\ process_add_slots(m, reply)
        /\ UNCHANGED texts

\* a user who has no record yet
InitOnboard ==
    /\ now = NowInit
    /\ time_slots = [m \in Entities |-> IF IsEquipment(m) THEN <<EqSlot>> ELSE <<>>]
    /\ bookings = [m \in Entities |-> <<>>]
    /\ top_bookings = <<>>
    /\ device_slots = [d \in Devices |-> <<DevSlot>>]
    /\ device_bookings = <<>>
    /\ user_states = [m \in Masters |-> NoAwait]
    /\ jobs = {}
    /\ sent = {}
    /\ serial = 0
    /\ buttons = [m \in Entities |-> {}]
    /\ disarmed = {}
    /\ tasks = [c \in RaceClients |-> [pc |-> "idle", path |-> "none", outcome |-> "none"]]
    /\ dm_bookings = <<>>
    /\ disk = store
    /\ outbox = {}
    /\ answer = "none"
    /\ last_save = "none"
    /\ inflight = NoOp
    /\ vibro_cancel = [u \in Users |-> NoId]
    /\ is_active = [m \in Entities |-> "true"]
    /\ profile = [m \in Masters |-> NoProfile]
    /\ awaiting = [m \in Masters |-> "none"]
    /\ gpt_status = "none"
    /\ LimiterIdle
    /\ ds_masters = <<>>
    /\ ds_result = NoAdd
    /\ slot_buttons = [m \in Masters |-> {}]
    /\ pressed = NoButton
    /\ sent_for = [m \in Masters |-> {}]
    /\ answered = NoAnswer

NextOnboard ==
    \/ SelectMasterRole
    \/ NewOrExistingMaster
    \/ MasterProfile
    \/ EditProfileRequest
    \/ NewProfile
    \/ AddSlotsRequest
    \/ AddSlots

SpecOnboard == InitOnboard /\ [][NextOnboard]_vars

----------------------------------------------------------------------------
(* RateLimiter of bot_middleware.py: one list of request times per user    *)

\* [req_time for req_time in requests if now - req_time < window_seconds]
RECURSIVE Recent(_, _, _)
Recent(reqs, t, window) ==
    IF reqs = <<>> THEN <<>>
    ELSE IF t - Head(reqs) < window
         THEN <<Head(reqs)>> \o Recent(Tail(reqs), t, window)
         ELSE Recent(Tail(reqs), t, window)

\* the limit test with > in place of >=
OverLimitStrict(reqs, limit) == Len(reqs) > limit

\* len(self.requests[user_id]) >= self.max_requests
OverLimit(reqs, limit) == Len(reqs) >= limit

\* RateLimiter.is_allowed
is_allowed(u) ==
    LET live == Recent(requests[u], rl_time, window_seconds) IN
    IF OverLimit(live, max_requests)
    THEN /\ requests' = [requests EXCEPT ![u] = live]
         /\ rl_result' = [user |-> u, allowed |-> FALSE]
         /\ UNCHANGED granted
    ELSE /\ requests' = [requests EXCEPT ![u] = Append(live, rl_time)]
         /\ rl_result' = [user |-> u, allowed |-> TRUE]
         /\ granted' = [granted EXCEPT ![u] = Append(@, rl_time)]

quiet == <<now, store, user_states, jobs, sent, serial, buttons, disarmed,
           tasks, dm_bookings, io, vibro_cancel, is_active, onboard, dataservice, manage, answers>>

RECURSIVE GrantsSoFar(_)
GrantsSoFar(S) ==
    IF S = {} THEN 0
    ELSE LET u == CHOOSE x \in S : TRUE IN Len(granted[u]) + GrantsSoFar(S \ {u})

IsAllowed ==
    \E u \in Clients :
        /\ GrantsSoFar(Clients) < MaxGrants
        /\ is_allowed(u)
        /\ UNCHANGED <<max_requests, window_seconds, rl_time, quiet>>

\* time.time() moves on between two requests
Tick ==
    /\ rl_time < MaxTime
    /\ rl_time' = rl_time + 1
    /\ rl_result' = NoCall
    /\ UNCHANGED <<max_requests, window_seconds, requests, granted, quiet>>

\* RateLimiter(max_requests, window_seconds)
InitLimiter ==
    /\ now = NowInit
    /\ time_slots = [m \in Entities |-> IF IsEquipment(m) THEN <<EqSlot>> ELSE <<SlotA>>]
    /\ bookings = [m \in Entities |-> <<>>]
    /\ top_bookings = <<>>
    /\ device_slots = [d \in Devices |-> <<DevSlot>>]
    /\ device_bookings = <<>>
    /\ user_states = [m \in Masters |-> NoAwait]
    /\ jobs = {}
    /\ sent = {}
    /\ serial = 0
    /\ buttons = [m \in Entities |-> {}]
    /\ disarmed = {}
    /\ tasks = [c \in RaceClients |-> [pc |-> "idle", path |-> "none", outcome |-> "none"]]
    /\ dm_bookings = <<>>
    /\ disk = store
    /\ outbox = {}
    /\ answer = "none"
    /\ last_save = "none"
    /\ inflight = NoOp
    /\ vibro_cancel = [u \in Users |-> NoId]
    /\ is_active = [m \in Entities |-> "true"]
    /\ profile = [m \in Masters |-> Registered]
    /\ awaiting = [m \in Masters |-> "none"]
    /\ gpt_status = "none"
    /\ max_requests \in 1..MaxRequests
    /\ window_seconds \in 1..WindowSeconds
    /\ requests = [u \in Users |-> <<>>]
    /\ rl_time = 0
    /\ rl_result = NoCall
    /\ granted = [u \in Users |-> <<>>]
    /\ ds_masters = <<>>
    /\ ds_result = NoAdd
    /\ slot_buttons = [m \in Masters |-> {}]
    /\ pressed = NoButton
    /\ sent_for = [m \in Masters |-> {}]
    /\ answered = NoAnswer

NextLimiter ==
    \/ IsAllowed
    \/ Tick

SpecLimiter == InitLimiter /\ [][NextLimiter]_vars

----------------------------------------------------------------------------
(* DataService of bot/services/data_service.py.  A telegram_id is a string, *)
(* here a sequence of character codes: 0..9 are the digits, Letter is any   *)
(* other character.                                                         *)

Letter == 10

\* "12345678", "78273571", "1234567" and "a1"
TelegramIds == {<<1, 2, 3, 4, 5, 6, 7, 8>>, <<7, 8, 2, 7, 3, 5, 7, 1>>,
                <<1, 2, 3, 4, 5, 6, 7>>, <<Letter, 1>>}

RECURSIVE isdigit(_)
isdigit(str) ==
    IF str = <<>> THEN TRUE
    ELSE Head(str) \in 0..9 /\ isdigit(Tail(str))

\* bot/utils/validation.py; str.isdigit() is False for the empty string
validate_telegram_id(user_id) ==
    /\ user_id # <<>>
    /\ isdigit(user_id)
    /\ Len(user_id) >= MIN_TELEGRAM_ID_LENGTH

\* DataService.find_master_by_id, as a truth value
find_master_by_id(telegram_id) ==
    /\ validate_telegram_id(telegram_id)
    /\ \E k \in 1..Len(ds_masters) : ds_masters[k].telegram_id = telegram_id

\* DataService.add_master; saved is what save_data returns
add_master(telegram_id, saved) ==
    IF find_master_by_id(telegram_id)
    THEN /\ ds_result' = [telegram_id |-> telegram_id, returned |-> FALSE]
         /\ UNCHANGED ds_masters
    ELSE LET master_data == [telegram_id |-> telegram_id,
                             created_at |-> Len(ds_masters) + 1,
                             is_active |-> TRUE]
         IN  IF saved
             THEN /\ ds_masters' = Append(ds_masters, master_data)
                  /\ ds_result' = [telegram_id |-> telegram_id, returned |-> TRUE]
             ELSE /\ ds_result' = [telegram_id |-> telegram_id, returned |-> FALSE]
                  /\ UNCHANGED ds_masters

AddMaster ==
    \E telegram_id \in TelegramIds, saved \in BOOLEAN :
        /\ Len(ds_masters) < MaxMasters
        /\ add_master(telegram_id, saved)
        /\ UNCHANGED <<now, store, user_states, jobs, sent, serial, buttons,
                       disarmed, tasks, dm_bookings, io, vibro_cancel,
                       is_active, onboard, limiter, manage, answers>>

NextData ==
    \/ AddMaster

SpecData == Init /\ [][NextData]_vars

----------------------------------------------------------------------------
(* Slot management: a master opens "my slots" and presses the buttons of   *)
(* that view, possibly much later                                          *)

SlotPast == [date |-> 0, start_time |-> HHMM(14, 0), end_time |-> HHMM(15, 0)]

\* time_slots of a master as the run starts: nothing removes a slot once
\* its time has passed
ManagedSlotLists ==
    {<<SlotA, SlotB>>, <<SlotPast, SlotA>>, <<SlotBadTime, SlotA, SlotB>>}

\* the buttons show_slots_with_management sends: callback data carries the
\* position in the filtered list
ViewButtons(m, t) ==
    LET view == show_slots_with_management(m, t) IN
    {[kind |-> view[i].button, index |-> i - 1,
      date |-> view[i].slot.date, start_time |-> view[i].slot.start_time]
        : i \in 1..Len(view)}

show_slots(m) ==
    /\ slot_buttons' = [slot_buttons EXCEPT ![m] = @ \cup ViewButtons(m, now)]
    /\ UNCHANGED <<store, user_states, jobs, serial, buttons, disarmed, pressed>>

ShowSlots ==
    \E m \in Masters : show_slots(m) /\ UNCHANGED rest_managed

PressDelete ==
    \E m \in Masters : \E b \in slot_buttons[m] :
        /\ b.kind = "delete_slot"
        /\ delete_slot(m, b.index)
        /\ pressed' = b
        /\ UNCHANGED <<slot_buttons, rest_managed>>

PressCancel ==
    \E m \in Masters : \E b \in slot_buttons[m] :
        /\ b.kind = "cancel_booking"
        /\ cancel_booking(m, b.index)
        /\ pressed' = b
        /\ UNCHANGED <<slot_buttons, rest_managed>>

\* a client presses a book_slot button of show_master_details
BookShown ==
    \E c \in Clients, m \in Masters : \E i \in show_master_details(m, now) :
        /\ serial < MaxBookings
        /\ process_booking_request(c, m, i)
        /\ UNCHANGED rest

InitManage ==
    /\ now = NowInit
    /\ time_slots \in [Entities -> ManagedSlotLists \cup {<<EqSlot>>}]
    /\ \A m \in Entities :
           IF IsEquipment(m) THEN time_slots[m] = <<EqSlot>>
           ELSE time_slots[m] \in ManagedSlotLists
    /\ bookings = [m \in Entities |-> <<>>]
    /\ top_bookings = <<>>
    /\ device_slots = [d \in Devices |-> <<DevSlot>>]
    /\ device_bookings = <<>>
    /\ user_states = [m \in Masters |-> NoAwait]
    /\ jobs = {}
    /\ sent = {}
    /\ serial = 0
    /\ buttons = [m \in Entities |-> {}]
    /\ disarmed = {}
    /\ tasks = [c \in RaceClients |-> [pc |-> "idle", path |-> "none", outcome |-> "none"]]
    /\ dm_bookings = <<>>
    /\ disk = store
    /\ outbox = {}
    /\ answer = "none"
    /\ last_save = "none"
    /\ inflight = NoOp
    /\ vibro_cancel = [u \in Users |-> NoId]
    /\ is_active = [m \in Entities |-> "true"]
    /\ profile = [m \in Masters |-> Registered]
    /\ awaiting = [m \in Masters |-> "none"]
    /\ gpt_status = "none"
    /\ LimiterIdle
    /\ ds_masters = <<>>
    /\ ds_result = NoAdd
    /\ slot_buttons = [m \in Masters |-> {}]
    /\ pressed = NoButton
    /\ sent_for = [m \in Masters |-> {}]
    /\ answered = NoAnswer

NextManage ==
    \/ ShowSlots
    \/ PressDelete
    \/ PressCancel
    \/ BookShown
    \/ Confirm

SpecManage == InitManage /\ [][NextManage]_vars

----------------------------------------------------------------------------
(* Answering requests: the master presses the buttons that came with each  *)
(* booking request, between cancellations and deletions                    *)

\* process_booking_request; the notification to the master carries
\* confirm_booking_{len-1} / decline_booking_{len-1}
RequestBooking ==
    \E c \in Clients, m \in Masters, i \in 0..(Cardinality(InitSlots) - 1) :
        /\ BookingRequestOutcome(c, m, i) = "created" => serial < MaxBookings
        /\ process_booking_request(c, m, i)
        /\ sent_for' = IF BookingRequestOutcome(c, m, i) = "created"
                       THEN [sent_for EXCEPT ![m] = @ \cup
                                {[index |-> Len(bookings[m]), booking |-> serial + 1]}]
                       ELSE sent_for
        /\ UNCHANGED <<answered, manage, now, sent, tasks, dm_bookings, io,
                       vibro_cancel, is_active, onboard, limiter, dataservice>>

\* handle_callback_query, confirm_booking_{i}
PressConfirm ==
    \E m \in Masters : \E b \in sent_for[m], delivered \in BOOLEAN :
        /\ handle_booking_response_confirm(m, b.index, delivered)
        /\ answered' = [answered EXCEPT !.confirm = b]
        /\ UNCHANGED <<sent_for, manage, now, sent, tasks, dm_bookings, io,
                       vibro_cancel, is_active, onboard, limiter, dataservice>>

\* handle_callback_query, decline_booking_{i}
PressDeclineBooking ==
    \E m \in Masters : \E b \in sent_for[m] :
        /\ handle_booking_response_decline(m, b.index)
        /\ answered' = IF b.index >= Len(bookings[m]) THEN answered
                       ELSE [answered EXCEPT !.decline = b]
        /\ UNCHANGED <<sent_for, manage, now, sent, tasks, dm_bookings, io,
                       vibro_cancel, is_active, onboard, limiter, dataservice>>

NextAnswer ==
    \/ RequestBooking
    \/ PressConfirm
    \/ PressDeclineBooking
    \/ DeclineReason
    \/ CancelBooking
    \/ DeleteSlot
    \/ Advance

SpecAnswer == Init /\ [][NextAnswer]_vars

----------------------------------------------------------------------------
(* Flood control: with_error_handling sleeps and runs the handler again    *)
(* when a Telegram call raises RetryAfter                                  *)

\* handle_callback_query for book_slot_{m}_{slot_index}, wrapped by
\* with_error_handling, when the edit_message_text that follows save_data
\* raises RetryAfter: the first run stops there, before the notification to
\* the master, and the wrapper calls the handler once more.  answered_again
\* is whether the second query.answer() for the same callback query is
\* accepted by Telegram; when it is not, the second run raises before doing
\* anything
process_booking_request_rerun(c, m, slot_index, answered_again) ==
    /\ BookingRequestOutcome(c, m, slot_index) = "created"
    /\ LET slot == time_slots[m][slot_index + 1]
           first == [id |-> NoId, client_id |-> c, master_id |-> m,
                     master_name |-> m,
                     slot_date |-> slot.date,
                     slot_start_time |-> slot.start_time,
                     status |-> "pending",
                     created_at |-> serial + 1,
                     decline_reason |-> NoReason]
           second == [first EXCEPT !.created_at = serial + 2]
       IN  IF answered_again
           THEN /\ bookings' = [bookings EXCEPT ![m] = Append(Append(@, first), second)]
                /\ serial' = serial + 2
                /\ buttons' = [buttons EXCEPT ![m] = @ \cup {Len(bookings[m]) + 1}]
           ELSE /\ bookings' = [bookings EXCEPT ![m] = Append(@, first)]
                /\ serial' = serial + 1
                /\ UNCHANGED buttons
    /\ UNCHANGED <<time_slots, top_bookings, device_slots, device_bookings,
                   user_states, jobs, disarmed>>

BookSlotRetryAfter ==
    \E c \in Clients, m \in Masters, i \in 0..(Cardinality(InitSlots) - 1),
       answered_again \in BOOLEAN :
        /\ serial + 1 < MaxBookings
        /\ process_booking_request_rerun(c, m, i, answered_again)
        /\ UNCHANGED rest

NextRetry ==
    \/ BookSlot
    \/ BookSlotRetryAfter
    \/ BookTime
    \/ Confirm
    \/ Decline
    \/ DeclineReason
    \/ DeleteSlot
    \/ Advance

SpecRetry == Init /\ [][NextRetry]_vars

----------------------------------------------------------------------------
(* Listings of masters over documents whose entries are active, inactive   *)
(* or carry no is_active field                                             *)

InitList ==
    /\ now = NowInit
    /\ time_slots = [m \in Entities |->
                        IF IsEquipment(m) THEN <<EqSlot>> ELSE <<SlotA>>]
    /\ bookings = [m \in Entities |-> <<>>]
    /\ top_bookings = <<>>
    /\ device_slots = [d \in Devices |-> <<DevSlot>>]
    /\ device_bookings = <<>>
    /\ user_states = [m \in Masters |-> NoAwait]
    /\ jobs = {}
    /\ sent = {}
    /\ serial = 0
    /\ buttons = [m \in Entities |-> {}]
    /\ disarmed = {}
    /\ tasks = [c \in RaceClients |-> [pc |-> "idle", path |-> "none", outcome |-> "none"]]
    /\ dm_bookings = <<>>
    /\ disk = store
    /\ outbox = {}
    /\ answer = "none"
    /\ last_save = "none"
    /\ inflight = NoOp
    /\ vibro_cancel = [u \in Users |-> NoId]
    /\ is_active \in [Entities -> {"true", "false", "missing"}]
    /\ profile = [m \in Masters |-> Registered]
    /\ awaiting = [m \in Masters |-> "none"]
    /\ gpt_status = "none"
    /\ LimiterIdle
    /\ ds_masters = <<>>
    /\ ds_result = NoAdd
    /\ slot_buttons = [m \in Masters |-> {}]
    /\ pressed = NoButton
    /\ sent_for = [m \in Masters |-> {}]
    /\ answered = NoAnswer

NextList ==
    \/ BookSlot
    \/ BookTime
    \/ Advance

SpecList == InitList /\ [][NextList]_vars

----------------------------------------------------------------------------
(* Properties                                                              *)

\* number of pending or confirmed bookings of master m for (date, start),
\* over both lists that hold bookings of masters
ActiveCount(m, date, start_time) ==
    Cardinality({k \in 1..Len(bookings[m]) :
        /\ bookings[m][k].slot_date = date
        /\ bookings[m][k].slot_start_time = start_time
        /\ Active(bookings[m][k])})
    + Cardinality({k \in 1..Len(top_bookings) :
        /\ top_bookings[k].master_id = m
        /\ top_bookings[k].slot_date = date
        /\ top_bookings[k].slot_start_time = start_time
        /\ Active(top_bookings[k])})

DeviceActiveCount(d, date, start_time) ==
    Cardinality({k \in 1..Len(device_bookings) :
        /\ device_bookings[k].device_id = d
        /\ device_bookings[k].slot_date = date
        /\ device_bookings[k].slot_start_time = start_time
        /\ Active(device_bookings[k])})

\* pending or confirmed bookings client c holds with master m
ActiveHeld(c, m) ==
    Cardinality({k \in 1..Len(bookings[m]) :
        bookings[m][k].client_id = c /\ Active(bookings[m][k])})
    + Cardinality({k \in 1..Len(top_bookings) :
        /\ top_bookings[k].master_id = m
        /\ top_bookings[k].client_id = c
        /\ Active(top_bookings[k])})

\* available_slots(entity, now) of the specification: the slot exists, lies
\* in the future and no active booking holds it
Available(m, date, start_time, t) ==
    /\ \E slot \in Range(time_slots[m]) :
           slot.date = date /\ slot.start_time = start_time
    /\ SlotDatetime(date, start_time) > t
    /\ ActiveCount(m, date, start_time) = 0

DeviceAvailable(d, date, start_time, t) ==
    /\ \E slot \in Range(device_slots[d]) :
           slot.date = date /\ slot.start_time = start_time
    /\ SlotDatetime(date, start_time) > t
    /\ DeviceActiveCount(d, date, start_time) = 0

SlotKeys == {<<s.date, s.start_time>> : s \in {SlotA, DevSlot}}
Dates == {s.date : s \in {SlotA, DevSlot}}

\* C1: in every reachable state at most one pending or confirmed booking
\* exists per (master or device, slot_date, slot_start_time).
C1_NoDoubleBooking ==
    \A key \in SlotKeys :
        /\ \A m \in Masters : ActiveCount(m, key[1], key[2]) <= 1
        /\ \A d \in Devices : DeviceActiveCount(d, key[1], key[2]) <= 1

\* C2: when the requests of N clients for the same slot of a master run as
\* concurrent tasks, exactly one creates a booking and the other N-1 are
\* rejected as slot unavailable.
C2_ExactlyOneWins ==
    LET reqs == {c \in RaceClients : tasks[c].path \in {"book_slot", "book_time"}}
    IN  (reqs # {} /\ \A c \in RaceClients : tasks[c].pc \in {"idle", "done"})
        => /\ Cardinality({c \in reqs : tasks[c].outcome = "created"}) = 1
           /\ \A c \in reqs :
                  tasks[c].outcome \in {"created", "slot_unavailable"}

\* C3: a booking is added only if its slot was in available_slots(entity,
\* now) when the request was made; a request for a slot that does not exist,
\* has started or is held by an active booking adds no booking.
C3_AcceptedOnlyIfAvailable ==
    [][/\ \A m \in Masters :
            \A b \in Range(bookings'[m]) \cup Range(top_bookings') :
                (b.created_at > serial /\ b.master_id = m)
                    => Available(m, b.slot_date, b.slot_start_time, now)
       /\ \A b \in Range(device_bookings') :
            b.created_at > serial
                => DeviceAvailable(b.device_id, b.slot_date, b.slot_start_time, now)
      ]_vars

\* C4: in every reachable state no client holds more than
\* MAX_BOOKINGS_PER_MASTER pending or confirmed bookings with one master.
C4_CapEnforced ==
    \A c \in Clients, m \in Masters : ActiveHeld(c, m) <= MAX_BOOKINGS_PER_MASTER

\* C5: no listing of available slots (show_master_details,
\* show_slots_by_date, show_device_day_slots) contains a slot for which a
\* pending or confirmed booking exists, whichever path created the booking.
C5_ListingsExcludeBooked ==
    /\ \A m \in Masters : \A i \in show_master_details(m, now) :
           ActiveCount(m, time_slots[m][i + 1].date,
                       time_slots[m][i + 1].start_time) = 0
    /\ \A date \in Dates : \A e \in show_slots_by_date(date, now) :
           ActiveCount(e[1], date, e[2]) = 0
    /\ \A d \in Devices, date \in Dates :
           \A st \in show_device_day_slots(d, date) :
               DeviceActiveCount(d, date, st) = 0

\* C6: a slot whose date + start_time is <= now appears in no available-slot
\* listing or count of any master or device.
C6_ListingsExcludePast ==
    /\ \A m \in Masters : \A i \in show_master_details(m, now) :
           SlotDatetime(time_slots[m][i + 1].date,
                        time_slots[m][i + 1].start_time) > now
    /\ \A m \in Masters :
           count_available_slots(m, now)
               <= Cardinality({i \in 1..Len(time_slots[m]) :
                      SlotDatetime(time_slots[m][i].date,
                                   time_slots[m][i].start_time) > now})
    /\ \A date \in Dates : \A e \in show_slots_by_date(date, now) :
           SlotDatetime(date, e[2]) > now
    /\ \A d \in Devices, date \in Dates :
           \A st \in show_device_day_slots(d, date) :
               SlotDatetime(date, st) > now
    /\ \A d \in Devices : \A date \in show_device_booking_slots(d, now) :
           \E slot \in Range(device_slots[d]) :
               slot.date = date /\ SlotDatetime(date, slot.start_time) > now

StatusEdges ==
    {<<"pending", "confirmed">>, <<"pending", "declined">>,
     <<"confirmed", "cancelled">>}

\* C7: the status of a booking changes only along pending->confirmed,
\* pending->declined and confirmed->cancelled; a declined or cancelled
\* booking never changes status again.
C7_StatusEdgesOnly ==
    [][\A m \in Masters :
           \A b \in Range(bookings[m]) : \A a \in Range(bookings'[m]) :
               (a.created_at = b.created_at /\ a.status # b.status)
                   => <<b.status, a.status>> \in StatusEdges
      ]_vars

C9_NoReminderAfterCancel ==
    /\ \A r \in sent : r.booking \notin disarmed
    /\ \A j \in jobs : j.booking \notin disarmed

\* C10: when a master confirms a pending booking whose session starts more
\* than 60 minutes after now, jobs are armed for both offsets,
\* session_start - 60 min and session_start - 15 min.
C10_BothOffsetsArmed ==
    [][\A m \in Masters : \A k \in 1..Len(bookings[m]) :
           LET b == bookings[m][k]
               start == SlotDatetime(b.slot_date, b.slot_start_time)
           IN  (/\ b.status = "pending"
                /\ k <= Len(bookings'[m])
                /\ bookings'[m][k].created_at = b.created_at
                /\ bookings'[m][k].status = "confirmed"
                /\ start - REMINDER_1_HOUR > now)
               => /\ \E j \in jobs' : /\ j.booking = b.created_at
                                      /\ j.run_date = start - REMINDER_1_HOUR
                  /\ \E j \in jobs' : /\ j.booking = b.created_at
                                      /\ j.run_date = start - REMINDER_15_MIN
      ]_vars


\* the jobs in job store J that remind about booking b
BookingJobs(J, b) == {j \in J : j.booking = b.created_at}

\* C11: arming reminders again for a confirmed booking whose jobs are
\* already in the scheduler leaves exactly the same set of jobs for that
\* booking: the second arm never adds duplicates.
C11_RearmIdempotent ==
    [][\A m \in Masters : \A b \in Range(bookings[m]) :
           (/\ b.status = "confirmed"
            /\ now' = now
            /\ BookingJobs(jobs, b) # {})
               => BookingJobs(jobs', b) = BookingJobs(jobs, b)
      ]_vars


\* the bookings that a step hands to schedule_reminder: the equipment and
\* device bookings it creates
NewAutoBookings ==
    {b \in Range(top_bookings') : b.created_at > serial /\ IsEquipment(b.master_id)}
    \cup {b \in Range(device_bookings') : b.created_at > serial}

\* C12: schedule_reminder(booking) at time now schedules the 1-hour job iff
\* session_start - 60 min > now and the 15-minute job iff session_start -
\* 15 min > now, each with run time session_start minus its offset, and no
\* job with a run time <= now.
C12_ScheduleReminderTiming ==
    [][\A b \in NewAutoBookings :
           LET start == SlotDatetime(b.slot_date, b.slot_start_time)
               J == BookingJobs(jobs', b)
           IN  /\ (start - REMINDER_1_HOUR > now)
                    <=> \E j \in J : j.offset = "1_hour"
               /\ (start - REMINDER_15_MIN > now)
                    <=> \E j \in J : j.offset = "15_min"
               /\ \A j \in J :
                    /\ j.run_date > now
                    /\ j.offset = "1_hour" => j.run_date = start - REMINDER_1_HOUR
                    /\ j.offset = "15_min" => j.run_date = start - REMINDER_15_MIN
      ]_vars


\* C13: every booking of a device or equipment entity is confirmed from its
\* creation on: no state holds a device or equipment booking in status
\* pending.
C13_AutoConfirmed ==
    /\ \A b \in Range(device_bookings) : b.status # "pending"
    /\ \A b \in Range(top_bookings) :
           IsEquipment(b.master_id) => b.status # "pending"
    /\ \A e \in Equipment : \A b \in Range(bookings[e]) : b.status # "pending"


\* C14: when a client books a device slot whose session starts more than 60
\* minutes after now, the client's 1-hour and 15-minute reminder jobs for
\* that booking are in the scheduler when the booking operation completes.
C14_DeviceRemindersArmed ==
    [][\A b \in Range(device_bookings') :
           LET start == SlotDatetime(b.slot_date, b.slot_start_time) IN
           (b.created_at > serial /\ start - REMINDER_1_HOUR > now)
               => /\ \E j \in BookingJobs(jobs', b) :
                        /\ j.to = b.client_id
                        /\ j.run_date = start - REMINDER_1_HOUR
                  /\ \E j \in BookingJobs(jobs', b) :
                        /\ j.to = b.client_id
                        /\ j.run_date = start - REMINDER_15_MIN
      ]_vars


\* the bookings of master m that hold a slot
ActiveOn(m, slot) ==
    {b \in Range(bookings[m]) :
        /\ b.slot_date = slot.date
        /\ b.slot_start_time = slot.start_time
        /\ Active(b)}

\* C15: delete_slot on a slot that has an active booking (pending or
\* confirmed) cascades: when the slot is removed the booking's client has
\* been notified and the booking is no longer an active booking.
C15_DeleteSlotCascades ==
    [][\A m \in Masters :
           \A slot \in Range(time_slots[m]) \ Range(time_slots'[m]) :
               \A b \in ActiveOn(m, slot) :
                   /\ \E n \in outbox' : /\ n.kind = "cancelled"
                                         /\ n.booking = b.created_at
                                         /\ n.to = b.client_id
                   /\ \A a \in Range(bookings'[m]) :
                          a.created_at = b.created_at => ~Active(a)
      ]_vars

\* the bookings of masters in document doc (a value of store)
DocBookings(doc) == UNION {Range(doc[2][m]) : m \in DOMAIN doc[2]}

\* document doc holds the mutation that message n tells about
Reflected(n, doc) ==
    CASE n.kind = "new_request" ->
            \E b \in DocBookings(doc) : b.created_at = n.booking
      [] n.kind = "confirmed" ->
            \E b \in DocBookings(doc) :
                b.created_at = n.booking /\ b.status = "confirmed"
      [] n.kind = "declined" ->
            \E b \in DocBookings(doc) :
                b.created_at = n.booking /\ b.status = "declined"
      [] n.kind = "cancelled" ->
            \A b \in DocBookings(doc) : b.created_at = n.booking => ~Active(b)

\* C16: for every booking or slot mutation the store is saved before the
\* notification to the other party is sent: at the moment a notification is
\* sent, the data file holds the mutation it tells about (stated for the
\* handlers whose write did not fail).
C16_SavedBeforeNotified ==
    [][last_save' # "failed" =>
           \A n \in outbox' \ outbox : Reflected(n, disk')]_vars

\* C17: cancel_booking on a slot with a confirmed booking leaves that
\* booking in status cancelled and notifies the client with a reason string
\* supplied by the master.
C17_CancelTransitions ==
    [][(inflight.op = "cancel_booking" /\ inflight'.op = "none") =>
           LET m == inflight.m
               b == bookings[m][ConfirmedFor(m, time_slots[m][inflight.slot_index + 1])]
           IN  /\ \E a \in Range(bookings'[m]) :
                      a.created_at = b.created_at /\ a.status = "cancelled"
               /\ \E n \in outbox' : /\ n.kind = "cancelled"
                                     /\ n.booking = b.created_at
                                     /\ n.reason \in Reasons
      ]_vars

\* C18: if saving the store fails during a booking mutation, the operation
\* fails closed: the document later operations see is the one from before
\* the operation, and the user is told to retry.
C18_FailClosed ==
    [][last_save' = "failed" => (store' = store /\ answer' = "retry")]_vars


\* C19: a device booking can be cancelled only by the owner of the device:
\* the cancel button pressed by any other user is refused, and a reason
\* message of any other user leaves device_bookings and the device's slots
\* unchanged.
C19_OnlyOwnerCancels ==
    [][\A u \in Users \ {DeviceOwner} :
           /\ vibro_cancel'[u] \in {vibro_cancel[u], NoId}
           /\ (vibro_cancel[u] # NoId /\ vibro_cancel'[u] = NoId)
                  => /\ device_bookings' = device_bookings
                     /\ device_slots' = device_slots
      ]_vars


\* C20: a master with is_active = false appears in no listing (DataService
\* .get_all_masters, show_masters_list, show_slots_by_date), and a master
\* without the is_active field counts as active.
C20_InactiveNeverListed ==
    \A m \in Entities :
        /\ is_active[m] = "false" =>
               /\ m \notin get_all_masters
               /\ m \notin show_masters_list(now)
               /\ \A date \in Dates : \A e \in show_slots_by_date(date, now) :
                      e[1] # m
        /\ is_active[m] = "missing" => m \in get_all_masters


C22_InterpreterFailureFallback ==
    [][\A m \in Masters :
           gpt_status' = "failed" =>
               /\ awaiting[m] = "master_profile" =>
                      /\ profile'[m].registered
                      /\ profile'[m].description = "fallback"
                      /\ profile'[m].services = "fallback"
               /\ awaiting[m] = "add_slots" /\ profile[m].registered =>
                      Len(time_slots'[m]) > Len(time_slots[m])]_vars


\* C23: every reminder job of a master booking comes with its counterpart:
\* at each armed offset both the master and the client have a job; for a
\* device or equipment booking only the client has jobs, none is addressed
\* to the device or its owner.
C23_ReminderCounterparts ==
    /\ \A m \in Masters : \A b \in Range(bookings[m]) :
           \A offset \in {"1_hour", "15_min"} :
               (\E j \in BookingJobs(jobs, b) :
                    j.offset = offset /\ j.to = b.client_id)
               <=> (\E j \in BookingJobs(jobs, b) :
                    j.offset = offset /\ j.to = m)
    /\ \A b \in Range(device_bookings) :
           \A j \in BookingJobs(jobs, b) : j.to = b.client_id
    /\ \A b \in Range(top_bookings) :
           IsEquipment(b.master_id) =>
               \A j \in BookingJobs(jobs, b) : j.to = b.client_id


\* C24: every booking created by any creation path is stored with an id,
\* and no two bookings in the store have the same id.
C24_BookingIdsUnique ==
    LET Master == UNION {{<<m, k, bookings[m][k].id>> : k \in 1..Len(bookings[m])}
                             : m \in Entities}
        Top == {<<"top", k, top_bookings[k].id>> : k \in 1..Len(top_bookings)}
        Device == {<<"device", k, device_bookings[k].id>> : k \in 1..Len(device_bookings)}
        Stored == Master \cup Top \cup Device
    IN  /\ \A x \in Stored : x[3] # NoId
        /\ \A x, y \in Stored : x # y => x[3] # y[3]


\* the bookings that handle_booking_response reaches from the buttons master
\* m has been sent: confirm_booking_{i} and decline_booking_{i} act on
\* master["bookings"][i]
ButtonTargets(m) ==
    {bookings[m][i + 1].created_at : i \in {k \in buttons[m] : k < Len(bookings[m])}}

\* C25: every pending booking of a master can be moved to confirmed or
\* declined by that master through the buttons sent with the booking
\* notification, whether process_booking_request or
\* process_time_booking_request created it; no booking stays pending with
\* no button able to change it.
C25_PendingHasButton ==
    \A m \in Masters :
        /\ \A b \in Range(bookings[m]) :
               b.status = "pending" => b.created_at \in ButtonTargets(m)
        /\ \A b \in Range(top_bookings) :
               (b.master_id = m /\ b.status = "pending")
                   => b.created_at \in ButtonTargets(m)


\* C26: no master has two time_slots with the same (date, start_time),
\* after any sequence of profile submissions, profile edits and slot
\* additions.
C26_SlotKeysUnique ==
    \A m \in Masters : \A i, k \in 1..Len(time_slots[m]) :
        (/\ time_slots[m][i].date = time_slots[m][k].date
         /\ time_slots[m][i].start_time = time_slots[m][k].start_time)
            => i = k

\* C27: every slot stored in a master's time_slots has start_time <
\* end_time, whatever slot list the text interpreter returns.
C27_StartBeforeEnd ==
    \A m \in Masters : \A slot \in Range(time_slots[m]) :
        slot.start_time < slot.end_time


\* a slot whose date or start_time is missing or is not a timestamp
Malformed(slot) ==
    \/ ~Present(slot.date)
    \/ ~Present(slot.start_time)
    \/ ~Parsable(slot.date, slot.start_time)

\* C28: a slot whose date or start_time is missing or cannot be parsed into
\* a timestamp is unavailable in every view: count_available_slots does not
\* count it, show_master_details and show_slots_by_date do not offer it.
C28_MalformedUnavailable ==
    \A m \in Masters :
        /\ count_available_slots(m, now) <=
               Cardinality({k \in 1..Len(time_slots[m]) : ~Malformed(time_slots[m][k])})
        /\ \A i \in show_master_details(m, now) : ~Malformed(time_slots[m][i + 1])
        /\ \A date \in Dates : \A e \in show_slots_by_date(date, now) :
               e[1] = m => ~Malformed([date |-> date, start_time |-> e[2]])


\* the calls of user u that returned True at a time in [t, t + window_seconds)
GrantedIn(u, t) ==
    {k \in 1..Len(granted[u]) :
        t <= granted[u][k] /\ granted[u][k] < t + window_seconds}

\* C29: for each user, is_allowed returns True for at most max_requests
\* calls within any window of window_seconds: the first max_requests calls
\* in a window are allowed, the next call in the same window is denied, and
\* a denied call is not recorded, so that it does not extend the block.
C29_RateLimit ==
    \A u \in Clients :
        /\ \A t \in (0 - WindowSeconds)..MaxTime :
               Cardinality(GrantedIn(u, t)) <= max_requests
        /\ (rl_result.user = u /\ ~rl_result.allowed) =>
               Cardinality(GrantedIn(u, rl_time - window_seconds + 1)) >= max_requests
        /\ \A k \in 1..Len(requests[u]) :
               \E g \in 1..Len(granted[u]) : granted[u][g] = requests[u][k]
        /\ Len(requests[u]) <= max_requests

\* a user is denied after max_requests allowed calls, and allowed again
\* later, once the window has passed
C29_Witness ==
    \E u \in Clients :
        /\ rl_result = [user |-> u, allowed |-> TRUE]
        /\ Len(granted[u]) > max_requests
        /\ rl_time < MaxTime


\* C30: after any sequence of DataService.add_master calls no two stored
\* masters have the same telegram_id: add_master with a telegram_id that is
\* already stored returns False and leaves the store unchanged, and
\* otherwise (the file written) appends the master with is_active = True
\* and a created_at stamp.
C30_AddMasterUnique ==
    [][/\ \A i, k \in 1..Len(ds_masters') :
              ds_masters'[i].telegram_id = ds_masters'[k].telegram_id => i = k
       /\ ds_result' # NoAdd =>
              IF \E k \in 1..Len(ds_masters) :
                     ds_masters[k].telegram_id = ds_result'.telegram_id
              THEN ~ds_result'.returned /\ ds_masters' = ds_masters
              ELSE ds_result'.returned =>
                       /\ Len(ds_masters') = Len(ds_masters) + 1
                       /\ ds_masters'[Len(ds_masters')].telegram_id = ds_result'.telegram_id
                       /\ ds_masters'[Len(ds_masters')].is_active
                       /\ ds_masters'[Len(ds_masters')].created_at > 0
      ]_vars


\* C31: the slot removed by delete_slot, and the booking cancelled by
\* cancel_booking, is the slot shown on the button the master pressed in
\* show_slots_with_management, also when time_slots holds past or
\* unparseable slots that the view hides, and when slots were added or
\* deleted since the view was sent.
C31_ButtonActsOnShownSlot ==
    [][\A m \in Masters :
           /\ \A k \in 1..Len(time_slots[m]) :
                  (Len(time_slots'[m]) < Len(time_slots[m])
                   /\ time_slots'[m] = Pop(time_slots[m], k - 1))
                      => /\ time_slots[m][k].date = pressed'.date
                         /\ time_slots[m][k].start_time = pressed'.start_time
           /\ \A b \in Range(bookings[m]) \ Range(bookings'[m]) :
                  /\ b.slot_date = pressed'.date
                  /\ b.slot_start_time = pressed'.start_time
      ]_vars

\* C32: the booking a master confirms through confirm_booking_N, or declines
\* through decline_booking_N and the reason message that follows, is the
\* booking that button was sent for, whatever was cancelled or deleted in
\* between
C32_AnswerReachesItsBooking ==
    [][\A m \in Masters : \A k \in 1..Len(bookings[m]) :
           (/\ Len(bookings'[m]) = Len(bookings[m])
            /\ bookings'[m][k].status # bookings[m][k].status)
               => /\ bookings'[m][k].status = "confirmed"
                      => bookings[m][k].created_at = answered'.confirm.booking
                  /\ bookings'[m][k].status = "declined"
                      => bookings[m][k].created_at = answered.decline.booking
      ]_vars

\* C33: every pending or confirmed booking of a master refers to a
\* (slot_date, slot_start_time) that is still in that master's time_slots;
\* once delete_slot has removed a slot no active booking for it remains
C33_ActiveBookingsHaveSlot ==
    \A m \in Masters : \A b \in Range(bookings[m]) :
        Active(b) => \E slot \in Range(time_slots[m]) :
                         /\ slot.date = b.slot_date
                         /\ slot.start_time = b.slot_start_time

\* C34: "my bookings" lists every booking the client holds, whichever
\* handler created it: process_booking_request, process_time_booking_request
\* or process_device_booking
C34_ClientSeesAllBookings ==
    \A c \in Clients :
        /\ \A m \in Entities : \A b \in Range(bookings[m]) :
               b.client_id = c => b \in show_client_bookings(c)
        /\ \A b \in Range(top_bookings) :
               b.client_id = c => b \in show_client_bookings(c)
        /\ \A b \in Range(device_bookings) :
               b.client_id = c =>
                   \E a \in show_client_bookings(c) : a.created_at = b.created_at

C36_OnePressOneBooking ==
    [][/\ \A m \in Entities : Len(bookings'[m]) <= Len(bookings[m]) + 1
       /\ Len(top_bookings') <= Len(top_bookings) + 1
       /\ Len(device_bookings') <= Len(device_bookings) + 1
      ]_vars

\* C37: reminder job ids are unique per booking: when a booking is confirmed
\* (or created already confirmed) and its reminders are armed, no job id
\* the handler uses for it is held in the scheduler by a job of another
\* booking, so arming never fails, replaces or drops a job on that account
C37_JobKeysPerBooking ==
    [][/\ \A m \in Masters : \A k \in 1..Len(bookings[m]) :
              LET b == bookings[m][k] IN
              (/\ Len(bookings'[m]) = Len(bookings[m])
               /\ b.status # "confirmed"
               /\ bookings'[m][k].status = "confirmed"
               /\ SlotDatetime(b.slot_date, b.slot_start_time) - REMINDER_15_MIN > now)
                  => \A j \in jobs :
                         j.id \in {"reminder_client_" \o b.client_id \o "_" \o ToString(k - 1),
                                   "reminder_master_" \o m \o "_" \o ToString(k - 1)}
                             => j.booking = b.created_at
       /\ \A b \in Range(top_bookings') \cup Range(device_bookings') :
              b.created_at > serial =>
                  \A j \in jobs, type \in {"1_hour", "15_min"} :
                      j.id # "reminder_client_" \o IdString(b) \o "_" \o type
      ]_vars

\* C38: when a master confirms a booking whose 15-minute reminder time is
\* still ahead, the reminders of the client and of the master are armed,
\* whether or not the confirmation message reached the client (stated for
\* job ids that no other job holds)
C38_ConfirmArmsReminders ==
    [][\A m \in Masters : \A k \in 1..Len(bookings[m]) :
           LET b == bookings[m][k]
               cid == "reminder_client_" \o b.client_id \o "_" \o ToString(k - 1)
               mid == "reminder_master_" \o m \o "_" \o ToString(k - 1)
           IN
           (/\ Len(bookings'[m]) = Len(bookings[m])
            /\ b.status # "confirmed"
            /\ bookings'[m][k].status = "confirmed"
            /\ SlotDatetime(b.slot_date, b.slot_start_time) - REMINDER_15_MIN > now
            /\ ~Conflicts(jobs, cid)
            /\ ~Conflicts(jobs, mid))
               => /\ \E j \in jobs' : j.id = cid /\ j.to = b.client_id
                  /\ \E j \in jobs' : j.id = mid /\ j.to = m
      ]_vars

====
